---- MODULE Spec2Model ----
(***************************************************************************)
(* Breakdown Chatbot (src/main.py, src/mistral_server.py).                 *)
(*                                                                         *)
(* The Streamlit script of src/main.py is executed from top to bottom for  *)
(* every user event.  The model has one action per user event; an action   *)
(* is the whole execution of the script for that event, st.rerun()         *)
(* included.  Strings are sequences of one-character strings, so that      *)
(* normalize(), substring containment and string composition are computed  *)
(* and not assumed.                                                        *)
(***************************************************************************)
EXTENDS Integers, Sequences, FiniteSets, TLC

VARIABLES
    columns,        \* df.columns of the Excel file (sequence of column names)
    file,           \* the rows of the Excel file EXCEL_PATH, as read_excel parses them
    query,          \* st.session_state.query
    last_query,     \* st.session_state.last_query
    inputs,         \* st.session_state["input_<col>"], the form's text inputs
    manual_inputs,  \* st.session_state.manual_inputs
    confirm_add,    \* st.session_state.confirm_add
    form_cleared,   \* st.session_state.form_cleared
    matches,        \* the suggestion buttons on the page (matches[:10])
    norm_final,     \* normalize(query) as the last search computed it
    matched_rows,   \* the MatchSet computed by the last search (df_result)
    shown,          \* what the page shows below the suggestions
    user_prompt,    \* the prompt built by the last search, or NoPrompt
    calls,          \* results of the query_mistral calls of this interaction
    error,          \* the uncaught exception that ended the last script run
    yes_shown,      \* the "Yes, Add" / "Cancel" buttons are on the page
    added,          \* the page says "Row added successfully!"
    event           \* the user event the last interaction handled

vars == <<columns, file, query, last_query, inputs, manual_inputs, confirm_add,
          form_cleared, matches, norm_final, matched_rows, shown, user_prompt, calls,
          error, yes_shown, added, event>>

-----------------------------------------------------------------------------
(* Bounds of the model *)

MaxRows == 2        \* rows of the Excel file
MaxLen == 3         \* length of the free-text strings tried on normalize

(* matches[:10] *)
MaxSuggestions == 10

-----------------------------------------------------------------------------
(* Characters and strings *)

UpperCase == <<"A","B","C","D","E","F","G","H","I","J","K","L","M",
               "N","O","P","Q","R","S","T","U","V","W","X","Y","Z">>
LowerCase == <<"a","b","c","d","e","f","g","h","i","j","k","l","m",
               "n","o","p","q","r","s","t","u","v","w","x","y","z">>
Digits == {"0","1","2","3","4","5","6","7","8","9"}

Range(s) == {s[i] : i \in DOMAIN s}

(* Two characters outside ASCII: U+212A KELVIN SIGN, whose lower case is   *)
(* the ASCII letter k, and U+00C9 / U+00E9 (E acute), which has a lower    *)
(* case outside ASCII.                                                     *)
Kelvin == "U+212A"
EAcuteUpper == "U+00C9"
EAcuteLower == "U+00E9"

UpperSet == Range(UpperCase)
LowerOf == [c \in UpperSet |-> LowerCase[CHOOSE i \in DOMAIN UpperCase : UpperCase[i] = c]]

(* str.lower() on one character *)
LowerChar(c) ==
    IF c \in UpperSet THEN LowerOf[c]
    ELSE IF c = Kelvin THEN "k"
    ELSE IF c = EAcuteUpper THEN EAcuteLower
    ELSE c

AsciiAlnum == Range(UpperCase) \cup Range(LowerCase) \cup Digits

(* the character class [a-zA-Z0-9] of the regular expression *)
IsAsciiAlnum(c) == c \in AsciiAlnum

(* a missing cell (NaN) of the data frame; never equal to a string *)
Missing == <<"NaN">>

(* str(text): NaN prints as "nan" *)
Str(text) == IF text = Missing THEN <<"n","a","n">> ELSE text

(* a faulty normalize: the character class applied before lower() *)
StripLowerFirst(text) ==
    LET s == SelectSeq(Str(text), IsAsciiAlnum)
    IN  [i \in DOMAIN s |-> LowerChar(s[i])]

(* normalize(text): re.sub(r'[^a-zA-Z0-9]', '', str(text).lower()) *)
normalize(text) ==
    LET s == Str(text)
        lowered == [i \in DOMAIN s |-> LowerChar(s[i])]
    IN  SelectSeq(lowered, IsAsciiAlnum)

(* Python's  a in b  on strings *)
In(a, b) ==
    \E i \in 0..(Len(b) - Len(a)) : SubSeq(b, i + 1, i + Len(a)) = a

By == <<" ","b","y"," ">>

(* f"{problem} by {machine}" *)
Compose(problem, machine) == Str(problem) \o By \o Str(machine)

-----------------------------------------------------------------------------
(* The data frame *)

MachineName == "Machine Name"
Problem == "Problem"

(* row.get(col, '') *)
Get(row, col) == IF col \in DOMAIN row THEN row[col] ELSE <<>>

Min(a, b) == IF a < b THEN a ELSE b

(* s[:n] *)
Take(s, n) == SubSeq(s, 1, Min(n, Len(s)))

(* Series.unique() / DataFrame.drop_duplicates(): first occurrences, in order *)
RECURSIVE Unique(_)
Unique(s) ==
    IF s = <<>> THEN <<>>
    ELSE LET front == Unique(SubSeq(s, 1, Len(s) - 1))
             last == s[Len(s)]
         IN  IF last \in Range(front) THEN front ELSE Append(front, last)

NotMissingName(row) == row[MachineName] # Missing
NotMissingPair(row) == row[Problem] # Missing /\ row[MachineName] # Missing

(* machine_names = df['Machine Name'].dropna().astype(str).unique() *)
machine_names(df) ==
    LET kept == SelectSeq(df, NotMissingName)
    IN  Unique([i \in DOMAIN kept |-> Str(kept[i][MachineName])])

(* problem_rows and problem_suggestions *)
problem_suggestions(df) ==
    LET kept == SelectSeq(df, NotMissingPair)
        problem_rows == Unique([i \in DOMAIN kept |->
                                  <<Str(kept[i][Problem]), Str(kept[i][MachineName])>>])
    IN  [i \in DOMAIN problem_rows |-> Compose(problem_rows[i][1], problem_rows[i][2])]

(* all_suggestions: the machine names, then the "problem by machine" strings *)
all_suggestions(df) == machine_names(df) \o problem_suggestions(df)

(* a faulty filter: every match offered, without the [:10] *)
noCap(sugg, q) ==
    LET norm_query == normalize(q)
        hit(s) == In(norm_query, normalize(s))
    IN  SelectSeq(sugg, hit)

(* matches = [s for s in all_suggestions if norm_query in normalize(s)], *)
(* of which the page offers matches[:10]                                  *)
filterSuggestions(sugg, q) ==
    LET norm_query == normalize(q)
        hit(s) == In(norm_query, normalize(s))
    IN  Take(SelectSeq(sugg, hit), MaxSuggestions)

(* a faulty search: without the test of combined_norm *)
noCombined(df, norm) ==
    LET hit(row) == \/ In(norm, normalize(Str(Get(row, MachineName))))
                    \/ In(norm, normalize(Str(Get(row, Problem))))
    IN  SelectSeq(df, hit)

(* a faulty search: repeated rows dropped *)
dedupMatch(df, norm) ==
    LET hit(row) ==
            \/ In(norm, normalize(Str(Get(row, MachineName))))
            \/ In(norm, normalize(Str(Get(row, Problem))))
            \/ In(norm, normalize(Compose(Get(row, Problem), Get(row, MachineName))))
    IN  Unique(SelectSeq(df, hit))

(* the search loop: matched_rows, for norm = normalize(query) *)
match(df, norm) ==
    LET hit(row) ==
            LET machine_norm == normalize(Str(Get(row, MachineName)))
                problem_norm == normalize(Str(Get(row, Problem)))
                combined_norm == normalize(Compose(Get(row, Problem), Get(row, MachineName)))
            IN  \/ In(norm, machine_norm)
                \/ In(norm, problem_norm)
                \/ In(norm, combined_norm)
    IN  SelectSeq(df, hit)

(* insertion of one line into a table sorted by descending Count; a line  *)
(* goes after the lines of equal Count                                    *)
RECURSIVE InsertDesc(_, _)
InsertDesc(table, line) ==
    IF table = <<>> THEN <<line>>
    ELSE IF table[1].Count >= line.Count
         THEN <<table[1]>> \o InsertDesc(Tail(table), line)
         ELSE <<line>> \o table

RECURSIVE SortDesc(_)
SortDesc(table) ==
    IF table = <<>> THEN <<>>
    ELSE InsertDesc(SortDesc(SubSeq(table, 1, Len(table) - 1)), table[Len(table)])

IsPresent(v) == v # Missing

(* df_result['Problem'].value_counts().reset_index(): value_counts leaves *)
(* the missing values out and sorts by descending count                   *)
problem_counts(df_result) ==
    LET column == [i \in DOMAIN df_result |-> df_result[i][Problem]]
        values == Unique(SelectSeq(column, IsPresent))
        count(v) == Cardinality({i \in DOMAIN column : column[i] = v})
    IN  SortDesc([i \in DOMAIN values |-> [Problem |-> values[i], Count |-> count(values[i])]])

NoPrompt == [template |-> "none"]

(* user_prompt: the two templates *)
buildPrompt(q, df_result) ==
    IF Len(df_result) = 1
    THEN [template |-> "single", query |-> q, details |-> df_result]
    ELSE [template |-> "multi", query |-> q, count |-> Len(df_result),
          summary |-> problem_counts(df_result), details |-> df_result]

-----------------------------------------------------------------------------
(* The language-model client *)

(* what requests.post(url, json=data) and response.json()["response"] can  *)
(* do: return the reply, raise requests' ConnectionError (refused, or no   *)
(* answer within the transport's time), or raise KeyError('response')      *)
LMOutcomes == {"ok", "ConnectionError", "KeyError"}

NoError == [type |-> "none", arg |-> ""]

(* query_mistral(prompt): the exception it raises, if any *)
query_mistral(outcome) ==
    IF outcome = "ok" THEN NoError
    ELSE IF outcome = "ConnectionError" THEN [type |-> "ConnectionError", arg |-> "localhost:11434"]
    ELSE [type |-> "KeyError", arg |-> "response"]

-----------------------------------------------------------------------------
(* The Excel file *)

(* strings that read_excel parses as a missing value (pandas' default      *)
(* na_values), among them the empty string                                 *)
NAStrings == { <<>>, <<"n","a","n">>, <<"N","a","N">>, <<"N","A">>,
               <<"N","/","A">>, <<"n","u","l","l">>, <<"N","o","n","e">> }

(* df.to_excel(EXCEL_PATH) followed by the next run's pd.read_excel *)
Reload(row) == [c \in DOMAIN row |-> IF row[c] \in NAStrings THEN Missing ELSE row[c]]

(* pd.concat([df, pd.DataFrame([manual_inputs])], ignore_index=True), then *)
(* df.to_excel(EXCEL_PATH, index=False)                                    *)
appendRow(df, row) == Append(df, Reload(row))

-----------------------------------------------------------------------------
(* One execution of the script *)

NoEvent == [type |-> "none", arg |-> <<>>]

Blank(cols) == [c \in Range(cols) |-> <<>>]

(* The result of a run: the session state ss it leaves, the file, what the *)
(* page shows, the query_mistral call it made, the exception that ended    *)
(* it, and whether it ended in st.rerun().                                 *)
Page(ss, df) ==
    [ss |-> ss, file |-> df, matches |-> <<>>, norm_final |-> <<>>, matched_rows |-> <<>>,
     shown |-> "none", user_prompt |-> NoPrompt, call |-> <<>>,
     error |-> NoError, yes_shown |-> FALSE, added |-> FALSE, rerun |-> FALSE]

(* a faulty confirmation: "Yes, Add" handled outside  if confirm_add *)
yesWithoutPending(p, cols, ev) ==
    LET s1 == p.ss
        p1 == [p EXCEPT !.yes_shown = s1.confirm_add]
    IN  IF ev.type = "yes"
        THEN [p1 EXCEPT !.file = appendRow(p.file, s1.manual_inputs),
                        !.added = TRUE,
                        !.ss = [s1 EXCEPT !.inputs = Blank(cols),
                                          !.manual_inputs = Blank(cols),
                                          !.confirm_add = FALSE]]
        ELSE IF s1.confirm_add /\ ev.type = "cancel"
        THEN [p1 EXCEPT !.ss = [s1 EXCEPT !.confirm_add = FALSE]]
        ELSE p1

(* lines 185-215: if st.session_state.confirm_add, the "Yes, Add" and      *)
(* "Cancel" buttons are drawn, and the one pressed is handled              *)
ConfirmSection(p, cols, ev) ==
    LET s1 == p.ss
        p1 == [p EXCEPT !.yes_shown = s1.confirm_add]
    IN  IF s1.confirm_add /\ ev.type = "yes"
        THEN [p1 EXCEPT !.file = appendRow(p.file, s1.manual_inputs),
                        !.added = TRUE,
                        !.ss = [s1 EXCEPT !.inputs = Blank(cols),
                                          !.manual_inputs = Blank(cols),
                                          !.confirm_add = FALSE]]
        ELSE IF s1.confirm_add /\ ev.type = "cancel"
        THEN [p1 EXCEPT !.ss = [s1 EXCEPT !.confirm_add = FALSE]]
        ELSE p1

(* lines 158-224: the manual entry form, the confirmation and Clear Form *)
FormSection(p, cols, ev) ==
    LET ss == p.ss
        \* the widgets hold what the user submitted with the form
        typed == IF ev.type = "submit" THEN ev.arg ELSE ss.inputs
        \* if key not in st.session_state or form_cleared: st.session_state[key] = ""
        keys == IF ss.form_cleared THEN Blank(cols) ELSE typed
        \* manual_inputs[col] = st.text_input(...); form_cleared = False;
        \* if confirm: confirm_add = True
        s1 == [ss EXCEPT !.inputs = keys, !.manual_inputs = keys,
                         !.form_cleared = FALSE,
                         !.confirm_add = ss.confirm_add \/ ev.type = "submit"]
        p2 == ConfirmSection([p EXCEPT !.ss = s1], cols, ev)
    IN  IF ev.type = "clear"
        THEN [p2 EXCEPT !.ss = [p2.ss EXCEPT !.inputs = Blank(cols),
                                             !.manual_inputs = Blank(cols),
                                             !.form_cleared = TRUE],
                        !.rerun = TRUE]
        ELSE p2

(* a faulty search section: without the  if matched_rows / else  branch *)
callOnNoMatch(p, cols, ev, lm) ==
    LET q == p.ss.query
        norm == normalize(q)
        rows == match(p.file, norm)
        p0 == [p EXCEPT !.norm_final = norm]
        p1 == [p0 EXCEPT !.matched_rows = rows,
                         !.user_prompt = buildPrompt(q, rows),
                         !.call = <<lm>>]
    IN  IF q = <<>> THEN FormSection(p, cols, ev)
        ELSE IF lm = "ok" THEN FormSection([p1 EXCEPT !.shown = "explained"], cols, ev)
        ELSE [p1 EXCEPT !.shown = "results", !.error = query_mistral(lm)]

(* lines 116-156: the search, the prompt and the call of query_mistral; an *)
(* exception of query_mistral is not caught and ends the run               *)
SearchSection(p, cols, ev, lm) ==
    LET q == p.ss.query
        norm == normalize(q)
        rows == match(p.file, norm)
        p0 == [p EXCEPT !.norm_final = norm]
        p1 == [p0 EXCEPT !.matched_rows = rows,
                         !.user_prompt = buildPrompt(q, rows),
                         !.call = <<lm>>]
    IN  IF q = <<>> THEN FormSection(p, cols, ev)
        ELSE IF rows = <<>> THEN FormSection([p0 EXCEPT !.shown = "nomatch"], cols, ev)
        ELSE IF lm = "ok" THEN FormSection([p1 EXCEPT !.shown = "explained"], cols, ev)
        ELSE [p1 EXCEPT !.shown = "results", !.error = query_mistral(lm)]

(* a faulty script: the suggestions skipped, not failed, when a column is *)
(* missing, so that the search reads it through row.get(col, '')         *)
missingColumnAsEmpty(ss, cols, df, ev, lm) ==
    LET query_input == IF ev.type = "edit" THEN ev.arg ELSE ss.query
        s1 == IF query_input # ss.last_query
              THEN [ss EXCEPT !.query = query_input, !.last_query = query_input]
              ELSE ss
        p == Page(s1, df)
        complete == {MachineName, Problem} \subseteq Range(cols)
        offered == IF complete /\ s1.query # <<>>
                   THEN filterSuggestions(all_suggestions(df), s1.query)
                   ELSE <<>>
    IN  IF ev.type = "click" /\ ev.arg \in Range(offered)
        THEN [p EXCEPT !.ss = [s1 EXCEPT !.query = ev.arg, !.last_query = ev.arg],
                       !.matches = offered, !.rerun = TRUE]
        ELSE SearchSection([p EXCEPT !.matches = offered], cols, ev, lm)

(* lines 77-224: one run of the script for the event ev, in which a call   *)
(* of query_mistral would end as lm                                        *)
Script(ss, cols, df, ev, lm) ==
    LET \* the text input and "Sync input"
        query_input == IF ev.type = "edit" THEN ev.arg ELSE ss.query
        s1 == IF query_input # ss.last_query
              THEN [ss EXCEPT !.query = query_input, !.last_query = query_input]
              ELSE ss
        p == Page(s1, df)
        offered == IF s1.query # <<>>
                   THEN filterSuggestions(all_suggestions(df), s1.query)
                   ELSE <<>>
    IN  \* df['Machine Name'] and df[['Problem', 'Machine Name']] raise KeyError
        IF MachineName \notin Range(cols)
        THEN [p EXCEPT !.error = [type |-> "KeyError", arg |-> MachineName]]
        ELSE IF Problem \notin Range(cols)
        THEN [p EXCEPT !.error = [type |-> "KeyError", arg |-> Problem]]
        \* a clicked suggestion button: set the query and st.rerun()
        ELSE IF ev.type = "click" /\ ev.arg \in Range(offered)
        THEN [p EXCEPT !.ss = [s1 EXCEPT !.query = ev.arg, !.last_query = ev.arg],
                       !.matches = offered, !.rerun = TRUE]
        ELSE SearchSection([p EXCEPT !.matches = offered], cols, ev, lm)

-----------------------------------------------------------------------------
(* The values the model draws from *)

sPress1 == <<"P","r","e","s","s","-","1">>
sLathe2 == <<"L","a","t","h","e","-","2">>
sOverheat == <<"O","v","e","r","h","e","a","t">>
sJam == <<"J","a","m">>

(* the cells an Excel file can hold in each column *)
Cells(col) ==
    IF col = MachineName THEN {sPress1, sLathe2, Missing}
    ELSE {sOverheat, sJam, Missing}

(* what the user can type into the form's text inputs *)
Typed(col) ==
    IF col = MachineName THEN {<<>>, sPress1} ELSE {<<>>, sJam}

(* what the user can type into the query box *)
Queries ==
    { <<>>,
      <<"p","r","e","s","s","1">>,
      <<"z","z","z">>,
      <<"-","-","-">> }

SeqsUpTo(S, n) == UNION {[1..k -> S] : k \in 0..n}

Rows(cols) == [Range(cols) -> UNION {Cells(c) : c \in Range(cols)}]

(* the Excel files of at most n rows with the columns cols *)
Files(cols, n) ==
    SeqsUpTo({r \in Rows(cols) : \A c \in Range(cols) : r[c] \in Cells(c)}, n)

BothColumns == <<MachineName, Problem>>

(* the example data set of the specification *)
ExampleFile ==
    << [c \in Range(BothColumns) |-> IF c = MachineName THEN sPress1 ELSE sOverheat],
       [c \in Range(BothColumns) |-> IF c = MachineName THEN sPress1 ELSE sJam],
       [c \in Range(BothColumns) |-> IF c = MachineName THEN sLathe2 ELSE sOverheat] >>

-----------------------------------------------------------------------------
(* State and actions *)

SS == [query |-> query, last_query |-> last_query, inputs |-> inputs,
       manual_inputs |-> manual_inputs, confirm_add |-> confirm_add,
       form_cleared |-> form_cleared]

(* the session state of a new session (lines 72-75, 162-167) *)
NewSession(cols) ==
    [query |-> <<>>, last_query |-> <<>>, inputs |-> Blank(cols),
     manual_inputs |-> Blank(cols), confirm_add |-> FALSE, form_cleared |-> FALSE]

(* the page p, reached by the event named e with the calls c, is the state *)
Becomes(p, c, e) ==
    /\ file' = p.file
    /\ query' = p.ss.query
    /\ last_query' = p.ss.last_query
    /\ inputs' = p.ss.inputs
    /\ manual_inputs' = p.ss.manual_inputs
    /\ confirm_add' = p.ss.confirm_add
    /\ form_cleared' = p.ss.form_cleared
    /\ matches' = p.matches
    /\ norm_final' = p.norm_final
    /\ matched_rows' = p.matched_rows
    /\ shown' = p.shown
    /\ user_prompt' = p.user_prompt
    /\ calls' = c
    /\ error' = p.error
    /\ yes_shown' = p.yes_shown
    /\ added' = p.added
    /\ event' = e
    /\ UNCHANGED columns

(* The user event ev: the script runs, and runs once more after st.rerun() *)
Interaction(ev) ==
    \E lm1 \in LMOutcomes :
        \E first \in {Script(SS, columns, file, ev, lm1)} :
            IF first.rerun
            THEN \E lm2 \in LMOutcomes :
                    \E second \in {Script(first.ss, columns, first.file, NoEvent, lm2)} :
                        Becomes(second, first.call \o second.call, ev.type)
            ELSE Becomes(first, first.call, ev.type)

(* the first run of a session on the Excel file df with the columns cols *)
Open(cols, df) ==
    \E p \in {Script(NewSession(cols), cols, df, NoEvent, "ok")} :
        /\ columns = cols
        /\ file = p.file
        /\ query = p.ss.query
        /\ last_query = p.ss.last_query
        /\ inputs = p.ss.inputs
        /\ manual_inputs = p.ss.manual_inputs
        /\ confirm_add = p.ss.confirm_add
        /\ form_cleared = p.ss.form_cleared
        /\ matches = p.matches
        /\ norm_final = p.norm_final
        /\ matched_rows = p.matched_rows
        /\ shown = p.shown
        /\ user_prompt = p.user_prompt
        /\ calls = p.call
        /\ error = p.error
        /\ yes_shown = p.yes_shown
        /\ added = p.added
        /\ event = "open"

(* the widgets below the search are on the page: the last run reached its end *)
FormOnPage == error = NoError

(* the user changes the text of the query box *)
EditQuery(q) ==
    /\ q # query
    /\ Interaction([type |-> "edit", arg |-> q])

(* the user clicks one of the suggestion buttons *)
ClickSuggestion(s) ==
    /\ s \in Range(matches)
    /\ Interaction([type |-> "click", arg |-> s])

(* the user fills the form and presses "Add Row" *)
SubmitAddRow(values) ==
    /\ FormOnPage
    /\ Interaction([type |-> "submit", arg |-> values])

(* the user presses "Yes, Add" *)
YesAdd ==
    /\ FormOnPage /\ yes_shown
    /\ confirm_add => Len(file) < MaxRows
    /\ Interaction([type |-> "yes", arg |-> <<>>])

(* the user presses "Cancel" *)
Cancel ==
    /\ FormOnPage /\ yes_shown
    /\ Interaction([type |-> "cancel", arg |-> <<>>])

(* the user presses "Clear Form" *)
ClearForm ==
    /\ FormOnPage
    /\ Interaction([type |-> "clear", arg |-> <<>>])

(* a file with missing cells *)
GapsFile ==
    << [c \in Range(BothColumns) |-> IF c = MachineName THEN sPress1 ELSE sOverheat],
       [c \in Range(BothColumns) |-> IF c = MachineName THEN sPress1 ELSE Missing] >>

(* the Excel files a session of the interaction model starts from *)
StartFiles(cols) ==
    IF cols = BothColumns THEN {<<>>, ExampleFile, GapsFile} ELSE Files(cols, 1)

Init ==
    \E cols \in {BothColumns, <<MachineName>>, <<Problem>>} :
        \E df \in StartFiles(cols) : Open(cols, df)

Next ==
    \/ \E q \in Queries : EditQuery(q)
    \/ \E s \in Range(matches) : ClickSuggestion(s)
    \/ \E values \in [Range(columns) -> UNION {Typed(c) : c \in Range(columns)}] :
          /\ \A c \in Range(columns) : values[c] \in Typed(c)
          /\ SubmitAddRow(values)
    \/ YesAdd
    \/ Cancel
    \/ ClearForm

Spec == Init /\ [][Next]_vars

-----------------------------------------------------------------------------
(* The search alone, over every small Excel file and over the files made   *)
(* of rows of a file whose suggestions outnumber MaxSuggestions            *)

sPress(n) == <<"P","r","e","s","s","-",n>>

Row(machine, problem) ==
    [c \in Range(BothColumns) |-> IF c = MachineName THEN machine ELSE problem]

BigFile ==
    << Row(sPress1, sOverheat), Row(sPress("2"), sJam), Row(sPress("3"), sOverheat),
       Row(sPress("4"), sJam), Row(sPress("5"), sOverheat), Row(sLathe2, sJam),
       Row(sPress1, sJam) >>

(* the rows of s whose index is in I, in the order of s *)
Pick(s, I) ==
    LET F[k \in 0..Len(s)] ==
            IF k = 0 THEN <<>>
            ELSE IF k \in I THEN Append(F[k - 1], s[k]) ELSE F[k - 1]
    IN  F[Len(s)]

SearchFiles ==
    Files(BothColumns, MaxRows) \cup {ExampleFile, GapsFile}
        \cup {Pick(BigFile, I) : I \in SUBSET DOMAIN BigFile}

SearchQueries ==
    Queries \cup { <<"o","v","e","r","h","e","a","t">>,
                   <<"n","a","n">>,
                   <<"P","R","E","S","S">>,
                   <<"e">> }

InitSearch == \E df \in SearchFiles : Open(BothColumns, df)

NextSearch ==
    \/ \E q \in SearchQueries : EditQuery(q)
    \/ \E s \in Range(matches) : ClickSuggestion(s)

SpecSearch == InitSearch /\ [][NextSearch]_vars

-----------------------------------------------------------------------------
(* normalize on free text: the user types the query one character at a     *)
(* time, over an alphabet with both cases, a digit, punctuation, a space   *)
(* and characters outside ASCII                                            *)

Alphabet == {"A", "a", "B", "1", "-", " ", Kelvin, EAcuteUpper}

InitNormalize == Open(BothColumns, ExampleFile)

NextNormalize ==
    \E c \in Alphabet :
        /\ Len(query) < MaxLen
        /\ EditQuery(Append(query, c))

SpecNormalize == InitNormalize /\ [][NextNormalize]_vars

-----------------------------------------------------------------------------
(* Properties *)

(* the search is active: if st.session_state.query *)
Active == query # <<>>

C1_Hit(r) ==
    LET n == normalize(query)
    IN  \/ In(n, normalize(r[MachineName]))
        \/ In(n, normalize(r[Problem]))
        \/ In(n, normalize(Str(r[Problem]) \o By \o Str(r[MachineName])))

(* C1: for a query whose normalized form is not empty, the MatchSet is     *)
(* exactly the rows of the data set, in its order and with its duplicates, *)
(* for which normalize(query) is contained in the normalized Machine Name, *)
(* Problem or "Problem by Machine Name".                                   *)
C1_MatchSetExact ==
    (Active /\ normalize(query) # <<>>) => matched_rows = SelectSeq(file, C1_Hit)

(* the example of the specification: "press1" yields rows 1 and 2 *)
C1_Witness ==
    /\ file = ExampleFile
    /\ query = <<"p","r","e","s","s","1">>
    /\ matched_rows = <<ExampleFile[1], ExampleFile[2]>>

(* C2: a query whose normalized form is empty is "no search active": no    *)
(* matching, no result set, no call of the language model.                 *)
C2_EmptyNormIsInactive ==
    normalize(query) = <<>> =>
        /\ matched_rows = <<>>
        /\ shown = "none"
        /\ calls = <<>>

RECURSIVE LowerThenStrip(_)
LowerThenStrip(x) ==
    IF x = <<>> THEN <<>>
    ELSE LET c == LowerChar(Head(x))
         IN  (IF c \in AsciiAlnum THEN <<c>> ELSE <<>>) \o LowerThenStrip(Tail(x))

(* the texts that differ from x in the case of one letter, or by one       *)
(* character that is no letter or digit                                    *)
C3_Variants(x) ==
    {[x EXCEPT ![i] = LowerChar(x[i])] : i \in DOMAIN x}
        \cup {SubSeq(x, 1, i) \o <<c>> \o SubSeq(x, i + 1, Len(x)) :
                i \in 0..Len(x), c \in {"-", " "}}

(* C3: normalize(x) is x lower-cased with every character that is not an   *)
(* ASCII letter or digit removed; it is idempotent, and texts that differ  *)
(* only in case or punctuation normalize alike.                            *)
C3_Normalize ==
    Active =>
        /\ norm_final = LowerThenStrip(query)
        /\ normalize(norm_final) = norm_final
        /\ \A y \in C3_Variants(query) : normalize(y) = norm_final
        /\ normalize(<<"A","B","-","1","2">>) = <<"a","b","1","2">>
        /\ normalize(<<"a","b","1","2">>) = <<"a","b","1","2">>

C3_Witness ==
    /\ query = <<"A", "-", Kelvin>>
    /\ norm_final = <<"a", "k">>

(* C4 as stated: no prompt and no call without matches, and exactly one    *)
(* call in an interaction whose MatchSet is not empty.                     *)
C4_OneCallPerInteraction ==
    /\ matched_rows = <<>> => (user_prompt = NoPrompt /\ calls = <<>>)
    /\ matched_rows # <<>> => (user_prompt # NoPrompt /\ Len(calls) = 1)

(* C4: no prompt and no call without matches; with a MatchSet that is not  *)
(* empty each run of the script makes exactly one call and none after a    *)
(* failed one, which is one call per interaction, and two in a Clear Form  *)
(* interaction, whose st.rerun() runs the search again.                    *)
C4_OneCallPerRun ==
    /\ matched_rows = <<>> => (user_prompt = NoPrompt /\ calls = <<>>)
    /\ shown = "nomatch" => (matched_rows = <<>> /\ Active)
    /\ matched_rows # <<>> =>
          /\ user_prompt # NoPrompt
          /\ Len(calls) = (IF event = "clear" /\ calls[1] = "ok" THEN 2 ELSE 1)

C4_Witness ==
    /\ event = "clear"
    /\ matched_rows # <<>>
    /\ Len(calls) = 2

(* C5: a failed call of the language model is a recoverable condition: the *)
(* run goes on with the MatchSet displayed and the rest of the page drawn. *)
C5_FailureIsRecoverable ==
    \A i \in DOMAIN calls :
        calls[i] # "ok" => (error = NoError /\ matched_rows # <<>> /\ FormOnPage)

(* C6: the file changes only in a "Yes, Add" step taken while a            *)
(* confirmation is pending; the step appends one row, keeps the rows       *)
(* before it, and ends the confirmation.                                   *)
C6_AppendOnlyOnYes ==
    [][ file' # file =>
            /\ event' = "yes"
            /\ confirm_add /\ yes_shown
            /\ ~confirm_add'
            /\ added'
            /\ Len(file') = Len(file) + 1
            /\ SubSeq(file', 1, Len(file)) = file ]_vars

C6_Witness ==
    /\ event = "yes"
    /\ added
    /\ Len(file) = 2

C7_Hits ==
    LET n == normalize(query)
        hit(s) == In(n, normalize(s))
    IN  SelectSeq(all_suggestions(file), hit)

RECURSIVE SumCounts(_)
SumCounts(table) ==
    IF table = <<>> THEN 0 ELSE table[1].Count + SumCounts(Tail(table))

(* C8: for N > 1 matches the prompt is the multi-match one, states N and   *)
(* holds a frequency table of the Problem values sorted by descending      *)
(* count whose counts sum to N; for one match it is the single-match one   *)
(* with that row.                                                          *)
C8_CountsSumToN ==
    normalize(query) # <<>> =>
        /\ Len(matched_rows) = 1 =>
              /\ user_prompt.template = "single"
              /\ user_prompt.details = matched_rows
        /\ Len(matched_rows) > 1 =>
              /\ user_prompt.template = "multi"
              /\ user_prompt.count = Len(matched_rows)
              /\ SumCounts(user_prompt.summary) = Len(matched_rows)
              /\ \A i \in 1..(Len(user_prompt.summary) - 1) :
                    user_prompt.summary[i].Count >= user_prompt.summary[i + 1].Count

MissingColumns == {MachineName, Problem} \ Range(columns)

(* C9: with a required column missing every run ends in an error that      *)
(* names a missing column; nothing is matched, and the outcome is not the  *)
(* one of a search without matches.                                        *)
C9_SchemaError ==
    /\ MissingColumns # {} =>
          /\ error.type = "KeyError"
          /\ error.arg \in MissingColumns
          /\ matched_rows = <<>>
          /\ shown = "none"
          /\ calls = <<>>
    /\ shown = "nomatch" => error = NoError

C9_Witness ==
    /\ MissingColumns = {Problem}
    /\ file # <<>>
    /\ Active
    /\ error.arg = Problem

(* the row r is one the suggestion s was made from *)
C10_Derives(r, s) ==
    \/ r[MachineName] # Missing /\ Str(r[MachineName]) = s
    \/ /\ r[MachineName] # Missing /\ r[Problem] # Missing
       /\ Str(r[Problem]) \o By \o Str(r[MachineName]) = s

====
